---- MODULE Spec2Model ----
(***************************************************************************)
(* Model of harestorage: the Storage interface and its two backends,       *)
(* LocalStorage (a rooted directory tree) and GCSStorage (a bucket of      *)
(* keys).  Names, prefixes and paths are strings, modelled as sequences of *)
(* one-character strings so that path.Join / filepath.Join / Clean are     *)
(* computed as the Go library computes them.  Calls are synchronous and do  *)
(* not overlap; the environment may make a backend call fail (a fault).    *)
(***************************************************************************)
EXTENDS Integers, Sequences, FiniteSets, TLC

VARIABLES backend, configured, fs, bucket, last, afterPut

vars == <<backend, configured, fs, bucket, last, afterPut>>

(* ----------------------------- bounds ---------------------------------- *)
\* object contents are <<>> or a single byte 1..MaxByte
MaxByte == 1
\* at most MaxObjects objects are stored at once
MaxObjects == 2
\* directories nest at most MaxDepth deep, the root directory included
\* (renaming directories into one another nests them without limit)
MaxDepth == 3

Data == {<<>>} \cup {<<k>> : k \in 1..MaxByte}

\* the names, prefixes, src and dst arguments the callers pass
NameEmpty == <<>>
NameA == <<"a">>
NameDotA == <<".", "/", "a">>
NameAB == <<"a", "/", "b">>
NameAb == <<"a", "b">>
Names == {NameEmpty, NameA, NameDotA, NameAB, NameAb}

\* rootDir of a configured LocalStorage
RootDir == <<"/", "r">>

(* ------------------------- strings and paths --------------------------- *)
\* strings.HasPrefix
HasPrefix(s, p) == Len(p) <= Len(s) /\ SubSeq(s, 1, Len(p)) = p

\* strings.Split(s, "/")
RECURSIVE SplitSlash(_)
SplitSlash(s) ==
  IF s = <<>> THEN << <<>> >>
  ELSE LET rest == SplitSlash(Tail(s)) IN
       IF Head(s) = "/" THEN << <<>> >> \o rest
       ELSE << <<Head(s)>> \o Head(rest) >> \o Tail(rest)

\* strings.Join(elems, "/")
RECURSIVE JoinSlash(_)
JoinSlash(elems) ==
  IF elems = <<>> THEN <<>>
  ELSE IF Len(elems) = 1 THEN elems[1]
  ELSE elems[1] \o <<"/">> \o JoinSlash(Tail(elems))

DotDot == <<".", ".">>

\* the element stack path.Clean builds: "" and "." elements are dropped,
\* ".." removes the element before it (or is dropped at the root)
RECURSIVE CleanStack(_, _, _)
CleanStack(elems, stack, rooted) ==
  IF elems = <<>> THEN stack
  ELSE LET c == Head(elems)
           next == IF c = <<>> \/ c = <<".">> THEN stack
                   ELSE IF c = DotDot
                        THEN IF stack # <<>> /\ stack[Len(stack)] # DotDot
                             THEN SubSeq(stack, 1, Len(stack) - 1)
                             ELSE IF rooted THEN stack ELSE Append(stack, c)
                        ELSE Append(stack, c)
       IN CleanStack(Tail(elems), next, rooted)

\* path.Clean / filepath.Clean
Clean(s) ==
  IF s = <<>> THEN <<".">>
  ELSE LET rooted == s[1] = "/"
           body == JoinSlash(CleanStack(SplitSlash(s), <<>>, rooted))
       IN IF rooted THEN <<"/">> \o body
          ELSE IF body = <<>> THEN <<".">> ELSE body

\* path.Join / filepath.Join, which both PathJoin methods call
PathJoin(elems) ==
  LET ne == SelectSeq(elems, LAMBDA e : e # <<>>)
  IN IF ne = <<>> THEN <<>> ELSE Clean(JoinSlash(ne))

\* the elements of a cleaned absolute path: "/r/a" is <<"r", "a">>, "/" is <<>>
Elems(s) == SelectSeq(SplitSlash(s), LAMBDA e : e # <<>>)

\* s.PathJoin(s.rootDir, name) / filepath.Join(s.rootDir, name), as the
\* element list of the resulting path
JoinRoot(name) == Elems(PathJoin(<<RootDir, name>>))

\* JoinRoot of the callers' names, computed once
FullPathTable == [n \in Names |-> JoinRoot(n)]

FullPath(name) == IF name \in Names THEN FullPathTable[name] ELSE JoinRoot(name)

\* filepath.Dir of a cleaned absolute path
Dir(p) == SubSeq(p, 1, Len(p) - 1)

\* the name os.ReadDir reports for an entry
Base(p) == p[Len(p)]

Ancestors(p) == {SubSeq(p, 1, k) : k \in 0..(Len(p) - 1)}

\* p lies strictly beneath directory d
Beneath(p, d) == Len(p) > Len(d) /\ SubSeq(p, 1, Len(d)) = d

(* --------------------- the local filesystem (package os) --------------- *)
\* fs = [files |-> path -> bytes, dirs |-> set of paths]; a path is the
\* element list of a cleaned absolute path
EmptyMap == [q \in {} |-> <<>>]

MapPut(m, k, v) == [q \in DOMAIN m \cup {k} |-> IF q = k THEN v ELSE m[q]]

MapDrop(m, S) == [q \in DOMAIN m \ S |-> m[q]]

\* lstat: what a path resolves to
Stat(f, p) ==
  IF \E a \in Ancestors(p) : a \in DOMAIN f.files THEN "ENOTDIR"
  ELSE IF p \in DOMAIN f.files THEN "file"
  ELSE IF p \in f.dirs THEN "dir"
  ELSE "ENOENT"

Children(f, d) == {q \in DOMAIN f.files \cup f.dirs : q # d /\ Dir(q) = d}

\* os.MkdirAll
MkdirAll(f, p) ==
  IF \E a \in Ancestors(p) \cup {p} : a \in DOMAIN f.files
  THEN [err |-> "ENOTDIR", fs |-> f]
  ELSE [err |-> "", fs |-> [f EXCEPT !.dirs = @ \cup Ancestors(p) \cup {p}]]

\* os.Create: O_RDWR|O_CREATE|O_TRUNC
Create(f, p) ==
  LET s == Stat(f, p) IN
  IF s = "ENOTDIR" THEN [err |-> "ENOTDIR", fs |-> f]
  ELSE IF s = "dir" THEN [err |-> "EISDIR", fs |-> f]
  ELSE IF s = "ENOENT" /\ Stat(f, Dir(p)) # "dir" THEN [err |-> "ENOENT", fs |-> f]
  ELSE [err |-> "", fs |-> [f EXCEPT !.files = MapPut(@, p, <<>>)]]

\* os.Open: opening a directory succeeds
Open(f, p) ==
  LET s == Stat(f, p) IN IF s \in {"file", "dir"} THEN "" ELSE s

\* the path a renamed entry q (old itself or beneath it) gets
Rebase(q, old, new) == new \o SubSeq(q, Len(old) + 1, Len(q))

\* os.Rename: replaces an existing newpath unless it is a directory
Rename(f, old, new) ==
  LET so == Stat(f, old)
      sn == Stat(f, new)
      moved == {q \in DOMAIN f.files \cup f.dirs : q = old \/ Beneath(q, old)}
      keptFiles == MapDrop(f.files, moved \cup {new})
      newFiles == [q \in DOMAIN keptFiles \cup {Rebase(m, old, new) : m \in moved \cap DOMAIN f.files} |->
                     IF q \in DOMAIN keptFiles THEN keptFiles[q]
                     ELSE f.files[CHOOSE m \in moved \cap DOMAIN f.files : Rebase(m, old, new) = q]]
      newDirs == (f.dirs \ moved) \cup {Rebase(m, old, new) : m \in moved \cap f.dirs}
  IN
  IF sn = "dir"
  THEN [err |-> IF so \in {"ENOENT", "ENOTDIR"} THEN so ELSE "EEXIST", fs |-> f]
  ELSE IF so \in {"ENOENT", "ENOTDIR"} THEN [err |-> so, fs |-> f]
  ELSE IF sn = "ENOTDIR" THEN [err |-> "ENOTDIR", fs |-> f]
  ELSE IF sn = "ENOENT" /\ Stat(f, Dir(new)) # "dir" THEN [err |-> "ENOENT", fs |-> f]
  ELSE IF old = new THEN [err |-> "", fs |-> f]
  ELSE IF so = "dir" /\ Beneath(new, old) THEN [err |-> "EINVAL", fs |-> f]
  ELSE IF so = "dir" /\ sn = "file" THEN [err |-> "ENOTDIR", fs |-> f]
  ELSE [err |-> "", fs |-> [files |-> newFiles, dirs |-> newDirs]]

\* os.Remove: a file or an empty directory
Remove(f, p) ==
  LET s == Stat(f, p) IN
  IF s = "file" THEN [err |-> "", fs |-> [f EXCEPT !.files = MapDrop(@, {p})]]
  ELSE IF s = "dir"
       THEN IF Children(f, p) # {} THEN [err |-> "ENOTEMPTY", fs |-> f]
            ELSE [err |-> "", fs |-> [f EXCEPT !.dirs = @ \ {p}]]
  ELSE [err |-> s, fs |-> f]

\* os.RemoveAll: nil when the path does not exist.  Beneath a regular file
\* the unlinkat-based implementation (unix builds) reports ENOTDIR and the
\* portable one returns nil: both outcomes
RemoveAll(f, p) ==
  LET s == Stat(f, p)
      gone == {q \in DOMAIN f.files \cup f.dirs : q = p \/ Beneath(q, p)}
  IN
  IF s = "ENOENT" THEN {[err |-> "", fs |-> f]}
  ELSE IF s = "ENOTDIR" THEN {[err |-> "", fs |-> f], [err |-> "ENOTDIR", fs |-> f]}
  ELSE {[err |-> "", fs |-> [files |-> MapDrop(f.files, gone), dirs |-> f.dirs \ gone]]}

\* os.ReadDir: the entries of a directory
ReadDir(f, p) ==
  LET s == Stat(f, p) IN
  IF s = "dir" THEN [err |-> "", entries |-> Children(f, p)]
  ELSE [err |-> IF s = "file" THEN "ENOTDIR" ELSE s, entries |-> {}]

\* os.IsNotExist
IsNotExist(err) == err = "ENOENT"

\* how an error returned to the caller is classified (spec section 7)
ErrKind(err) == IF IsNotExist(err) THEN "NotFound" ELSE "IOError"

\* the bytes an interrupted io.Copy of b may have written
Partial(b) == {SubSeq(b, 1, k) : k \in 0..(IF Len(b) = 0 THEN 0 ELSE Len(b) - 1)}

(* --------------------------- operation results ------------------------- *)
NoListing == {}

\* st: the backend state after the call; res: "ok" or the error class;
\* n: Put's byte count; bytes/isdir: what Get's reader yields;
\* listing: List's entries; io: whether a backend call was made
Out(f, b, res, n, bytes, isdir, listing, io) ==
  [fs |-> f, bucket |-> b, res |-> res, n |-> n, bytes |-> bytes,
   isdir |-> isdir, listing |-> listing, io |-> io]

Fail(f, b, res, io) == Out(f, b, res, 0, <<>>, FALSE, NoListing, io)

Done(f, b) == Out(f, b, "ok", 0, <<>>, FALSE, NoListing, TRUE)

\* LocalStorage.checkRootDir
checkRootDir(cfg) == IF cfg THEN "" ELSE "Config"

\* GCSStorage.checkClientAndBucket
checkClientAndBucket(cfg) == IF cfg THEN "" ELSE "Config"

(* ------------------------------ LocalStorage --------------------------- *)
LocalGet(cfg, f, b, name) ==
  IF checkRootDir(cfg) # "" THEN {Fail(f, b, "Config", FALSE)}
  ELSE IF name = <<>> THEN {Fail(f, b, "InvalidArgument", FALSE)}
  ELSE LET fullPath == FullPath(name)
           err == Open(f, fullPath)
       IN IF err # "" THEN {Fail(f, b, ErrKind(err), TRUE)}
          ELSE IF Stat(f, fullPath) = "dir"
               THEN {Out(f, b, "ok", 0, <<>>, TRUE, NoListing, TRUE)}
               ELSE {Out(f, b, "ok", 0, f.files[fullPath], FALSE, NoListing, TRUE)}

LocalPut(cfg, f, b, name, data, fault) ==
  IF checkRootDir(cfg) # "" THEN {Fail(f, b, "Config", FALSE)}
  ELSE IF name = <<>> THEN {Fail(f, b, "InvalidArgument", FALSE)}
  ELSE LET fullPath == FullPath(name)
           md == MkdirAll(f, Dir(fullPath))
           cr == Create(md.fs, fullPath)
       IN IF md.err # "" THEN {Fail(f, b, ErrKind(md.err), TRUE)}
          ELSE IF cr.err # "" THEN {Fail(md.fs, b, ErrKind(cr.err), TRUE)}
          ELSE IF fault = "write"
               THEN {Fail([cr.fs EXCEPT !.files = MapPut(@, fullPath, w)], b, "IOError", TRUE) :
                       w \in Partial(data)}
               ELSE {Out([cr.fs EXCEPT !.files = MapPut(@, fullPath, data)], b,
                         "ok", Len(data), <<>>, FALSE, NoListing, TRUE)}

\* file.Info() fails only when an entry vanishes while it is listed; calls
\* do not overlap here, so no entry is skipped for that reason
LocalList(cfg, f, b, prefix) ==
  IF checkRootDir(cfg) # "" THEN {Fail(f, b, "Config", FALSE)}
  ELSE IF prefix = <<>> THEN {Fail(f, b, "InvalidArgument", FALSE)}
  ELSE LET fullPath == FullPath(prefix)
           rd == ReadDir(f, fullPath)
           objects == {[Name |-> PathJoin(<<prefix, Base(q)>>), Size |-> Len(f.files[q])] :
                         q \in rd.entries \cap DOMAIN f.files}
       IN IF rd.err # ""
          THEN IF IsNotExist(rd.err)
               THEN {Out(f, b, "ok", 0, <<>>, FALSE, NoListing, TRUE)}
               ELSE {Fail(f, b, ErrKind(rd.err), TRUE)}
          ELSE {Out(f, b, "ok", 0, <<>>, FALSE, objects, TRUE)}

LocalCopy(cfg, f, b, src, dst, fault) ==
  IF checkRootDir(cfg) # "" THEN {Fail(f, b, "Config", FALSE)}
  ELSE IF src = <<>> THEN {Fail(f, b, "InvalidArgument", FALSE)}
  ELSE IF dst = <<>> THEN {Fail(f, b, "InvalidArgument", FALSE)}
  ELSE LET srcPath == FullPath(src)
           dstPath == FullPath(dst)
           op == Open(f, srcPath)
           md == MkdirAll(f, Dir(dstPath))
           cr == Create(md.fs, dstPath)
           \* srcFile is read after dstFile was created (and truncated)
           srcBytes == cr.fs.files[srcPath]
       IN IF op # "" THEN {Fail(f, b, ErrKind(op), TRUE)}
          ELSE IF md.err # "" THEN {Fail(f, b, ErrKind(md.err), TRUE)}
          ELSE IF cr.err # "" THEN {Fail(md.fs, b, ErrKind(cr.err), TRUE)}
          ELSE IF Stat(f, srcPath) = "dir" THEN {Fail(cr.fs, b, "IOError", TRUE)}
          ELSE IF fault = "copy"
               THEN {Fail([cr.fs EXCEPT !.files = MapPut(@, dstPath, w)], b, "IOError", TRUE) :
                       w \in Partial(srcBytes)}
               ELSE {Done([cr.fs EXCEPT !.files = MapPut(@, dstPath, srcBytes)], b)}

\* LocalDelete removing the directory that holds the object
LocalDeleteDir(cfg, f, b, name, fault) ==
  IF checkRootDir(cfg) # "" THEN {Fail(f, b, "Config", FALSE)}
  ELSE IF name = <<>> THEN {Fail(f, b, "InvalidArgument", FALSE)}
  ELSE LET dir == Dir(FullPath(name))
           gone == {q \in DOMAIN f.files \cup f.dirs : q = dir \/ Beneath(q, dir)}
       IN IF fault = "remove" \/ Stat(f, FullPath(name)) # "file"
          THEN {Fail(f, b, "IOError", TRUE)}
          ELSE {Done([files |-> MapDrop(f.files, gone), dirs |-> f.dirs \ gone], b)}

LocalDelete(cfg, f, b, name, fault) ==
  IF checkRootDir(cfg) # "" THEN {Fail(f, b, "Config", FALSE)}
  ELSE IF name = <<>> THEN {Fail(f, b, "InvalidArgument", FALSE)}
  ELSE LET fullPath == FullPath(name)
           rm == Remove(f, fullPath)
       IN IF rm.err # "" THEN {Fail(f, b, ErrKind(rm.err), TRUE)}
          ELSE IF fault = "remove" THEN {Fail(f, b, "IOError", TRUE)}
          ELSE {Done(rm.fs, b)}

LocalMove(cfg, f, b, src, dst, fault) ==
  IF checkRootDir(cfg) # "" THEN {Fail(f, b, "Config", FALSE)}
  ELSE IF src = <<>> THEN {Fail(f, b, "InvalidArgument", FALSE)}
  ELSE IF dst = <<>> THEN {Fail(f, b, "InvalidArgument", FALSE)}
  ELSE LET srcPath == FullPath(src)
           dstPath == FullPath(dst)
           md == MkdirAll(f, Dir(dstPath))
           rn == Rename(md.fs, srcPath, dstPath)
           \* a rename across devices fails with EXDEV
           exdev == fault # "none" /\ srcPath # dstPath
           copied == LocalCopy(cfg, md.fs, b, src, dst,
                               IF fault = "rename+copy" THEN "copy" ELSE "none")
           deleted(c) == LocalDelete(cfg, c.fs, b, src,
                                     IF fault = "rename+remove" THEN "remove" ELSE "none")
       IN IF md.err # "" THEN {Fail(f, b, ErrKind(md.err), TRUE)}
          ELSE IF rn.err = "" /\ ~exdev THEN {Done(rn.fs, b)}
          ELSE UNION {IF c.res # "ok" THEN {Fail(c.fs, b, c.res, TRUE)}
                      ELSE {IF d.res # "ok" THEN Fail(d.fs, b, d.res, TRUE) ELSE Done(d.fs, b) :
                              d \in deleted(c)} :
                        c \in copied}

LocalDeleteAll(cfg, f, b, prefix) ==
  IF checkRootDir(cfg) # "" THEN {Fail(f, b, "Config", FALSE)}
  ELSE IF prefix = <<>> THEN {Fail(f, b, "InvalidArgument", FALSE)}
  ELSE LET fullPath == FullPath(prefix)
       IN {IF ra.err # "" THEN Fail(ra.fs, b, ErrKind(ra.err), TRUE) ELSE Done(ra.fs, b) :
             ra \in RemoveAll(f, fullPath)}

(* ------------------------------- GCSStorage ---------------------------- *)
\* bucket = key -> bytes; keys are the names verbatim
GCSGet(cfg, f, b, name) ==
  IF checkClientAndBucket(cfg) # "" THEN {Fail(f, b, "Config", FALSE)}
  ELSE IF name = <<>> THEN {Fail(f, b, "InvalidArgument", FALSE)}
  ELSE IF name \notin DOMAIN b THEN {Fail(f, b, "NotFound", TRUE)}
  ELSE {Out(f, b, "ok", 0, b[name], FALSE, NoListing, TRUE)}

\* the Writer commits the object in Close; Put defers Close and drops its
\* error.  fault "write": io.Copy fails and the deferred Close commits what
\* was written or nothing; fault "close": Close fails after io.Copy succeeded
GCSPut(cfg, f, b, name, data, fault) ==
  IF checkClientAndBucket(cfg) # "" THEN {Fail(f, b, "Config", FALSE)}
  ELSE IF name = <<>> THEN {Fail(f, b, "InvalidArgument", FALSE)}
  ELSE IF fault = "write"
       THEN {Fail(f, b, "IOError", TRUE)} \cup
            {Fail(f, MapPut(b, name, w), "IOError", TRUE) : w \in Partial(data)}
  ELSE IF fault = "close"
       THEN {Out(f, b, "ok", Len(data), <<>>, FALSE, NoListing, TRUE)}
  ELSE {Out(f, MapPut(b, name, data), "ok", Len(data), <<>>, FALSE, NoListing, TRUE)}

GCSList(cfg, f, b, prefix, fault) ==
  IF checkClientAndBucket(cfg) # "" THEN {Fail(f, b, "Config", FALSE)}
  ELSE IF prefix = <<>> THEN {Fail(f, b, "InvalidArgument", FALSE)}
  ELSE IF fault = "next" THEN {Fail(f, b, "IOError", TRUE)}
  ELSE LET objects == {[Name |-> PathJoin(<<prefix, k>>), Size |-> Len(b[k])] :
                         k \in {k \in DOMAIN b : HasPrefix(k, prefix)}}
       IN {Out(f, b, "ok", 0, <<>>, FALSE, objects, TRUE)}

\* GCSCopy without the check of dst
GCSCopyNoDstCheck(cfg, f, b, src, dst, fault) ==
  IF checkClientAndBucket(cfg) # "" THEN {Fail(f, b, "Config", FALSE)}
  ELSE IF src = <<>> THEN {Fail(f, b, "InvalidArgument", FALSE)}
  ELSE IF src \notin DOMAIN b THEN {Fail(f, b, "NotFound", TRUE)}
  ELSE IF fault = "run" THEN {Fail(f, b, "IOError", TRUE)}
  ELSE {Done(f, MapPut(b, dst, b[src]))}

GCSCopy(cfg, f, b, src, dst, fault) ==
  IF checkClientAndBucket(cfg) # "" THEN {Fail(f, b, "Config", FALSE)}
  ELSE IF src = <<>> THEN {Fail(f, b, "InvalidArgument", FALSE)}
  ELSE IF dst = <<>> THEN {Fail(f, b, "InvalidArgument", FALSE)}
  ELSE IF src \notin DOMAIN b THEN {Fail(f, b, "NotFound", TRUE)}
  ELSE IF fault = "run" THEN {Fail(f, b, "IOError", TRUE)}
  ELSE {Done(f, MapPut(b, dst, b[src]))}

GCSDelete(cfg, f, b, name, fault) ==
  IF checkClientAndBucket(cfg) # "" THEN {Fail(f, b, "Config", FALSE)}
  ELSE IF name = <<>> THEN {Fail(f, b, "InvalidArgument", FALSE)}
  ELSE IF name \notin DOMAIN b THEN {Fail(f, b, "NotFound", TRUE)}
  ELSE IF fault = "delete" THEN {Fail(f, b, "IOError", TRUE)}
  ELSE {Done(f, MapDrop(b, {name}))}

\* GCSMove that copies and leaves src in place
GCSMoveNoDelete(cfg, f, b, src, dst, fault) ==
  IF checkClientAndBucket(cfg) # "" THEN {Fail(f, b, "Config", FALSE)}
  ELSE IF src = <<>> THEN {Fail(f, b, "InvalidArgument", FALSE)}
  ELSE IF dst = <<>> THEN {Fail(f, b, "InvalidArgument", FALSE)}
  ELSE {IF c.res # "ok" THEN Fail(f, c.bucket, c.res, TRUE) ELSE Done(f, c.bucket) :
          c \in GCSCopy(cfg, f, b, src, dst, IF fault = "run" THEN "run" ELSE "none")}

\* GCSMove that deletes src before it copies
GCSMoveDeleteFirst(cfg, f, b, src, dst, fault) ==
  IF checkClientAndBucket(cfg) # "" THEN {Fail(f, b, "Config", FALSE)}
  ELSE IF src = <<>> THEN {Fail(f, b, "InvalidArgument", FALSE)}
  ELSE IF dst = <<>> THEN {Fail(f, b, "InvalidArgument", FALSE)}
  ELSE UNION {IF d.res # "ok" THEN {Fail(f, d.bucket, d.res, TRUE)}
              ELSE {IF c.res # "ok" THEN Fail(f, c.bucket, c.res, TRUE) ELSE Done(f, c.bucket) :
                      c \in GCSCopy(cfg, f, d.bucket, src, dst,
                                    IF fault = "run" THEN "run" ELSE "none")} :
                d \in GCSDelete(cfg, f, b, src, IF fault = "delete" THEN "delete" ELSE "none")}

GCSMove(cfg, f, b, src, dst, fault) ==
  IF checkClientAndBucket(cfg) # "" THEN {Fail(f, b, "Config", FALSE)}
  ELSE IF src = <<>> THEN {Fail(f, b, "InvalidArgument", FALSE)}
  ELSE IF dst = <<>> THEN {Fail(f, b, "InvalidArgument", FALSE)}
  ELSE UNION {IF c.res # "ok" THEN {Fail(f, c.bucket, c.res, TRUE)}
              ELSE {IF d.res # "ok" THEN Fail(f, d.bucket, d.res, TRUE) ELSE Done(f, d.bucket) :
                      d \in GCSDelete(cfg, f, c.bucket, src,
                                      IF fault = "delete" THEN "delete" ELSE "none")} :
                c \in GCSCopy(cfg, f, b, src, dst, IF fault = "run" THEN "run" ELSE "none")}

\* the loop deletes the enumerated objects one by one; fault "delete": a
\* Delete or it.Next fails after some of them were deleted
GCSDeleteAll(cfg, f, b, prefix, fault) ==
  IF checkClientAndBucket(cfg) # "" THEN {Fail(f, b, "Config", FALSE)}
  ELSE IF prefix = <<>> THEN {Fail(f, b, "InvalidArgument", FALSE)}
  ELSE LET matched == {k \in DOMAIN b : HasPrefix(k, prefix)}
       IN IF fault = "delete"
          THEN {Fail(f, MapDrop(b, S), "IOError", TRUE) :
                  S \in {S \in SUBSET matched : S # matched \/ matched = {}}}
          ELSE {Done(f, MapDrop(b, matched))}

(* ------------------------------ the calls ------------------------------ *)
PutFaults == IF backend = "local" THEN {"none", "write"} ELSE {"none", "write", "close"}
ListFaults == IF backend = "local" THEN {"none"} ELSE {"none", "next"}
CopyFaults == IF backend = "local" THEN {"none", "copy"} ELSE {"none", "run"}
MoveFaults == IF backend = "local" THEN {"none", "rename", "rename+copy", "rename+remove"}
              ELSE {"none", "run", "delete"}
DeleteFaults == IF backend = "local" THEN {"none", "remove"} ELSE {"none", "delete"}
DeleteAllFaults == IF backend = "local" THEN {"none"} ELSE {"none", "delete"}

\* Storage interface dispatch
StorageGet(be, cfg, f, b, name) ==
  IF be = "local" THEN LocalGet(cfg, f, b, name) ELSE GCSGet(cfg, f, b, name)
StoragePut(be, cfg, f, b, name, data, fault) ==
  IF be = "local" THEN LocalPut(cfg, f, b, name, data, fault) ELSE GCSPut(cfg, f, b, name, data, fault)
StorageList(be, cfg, f, b, prefix, fault) ==
  IF be = "local" THEN LocalList(cfg, f, b, prefix) ELSE GCSList(cfg, f, b, prefix, fault)
StorageCopy(be, cfg, f, b, src, dst, fault) ==
  IF be = "local" THEN LocalCopy(cfg, f, b, src, dst, fault) ELSE GCSCopy(cfg, f, b, src, dst, fault)
StorageMove(be, cfg, f, b, src, dst, fault) ==
  IF be = "local" THEN LocalMove(cfg, f, b, src, dst, fault) ELSE GCSMove(cfg, f, b, src, dst, fault)
StorageDelete(be, cfg, f, b, name, fault) ==
  IF be = "local" THEN LocalDelete(cfg, f, b, name, fault) ELSE GCSDelete(cfg, f, b, name, fault)
StorageDeleteAll(be, cfg, f, b, prefix, fault) ==
  IF be = "local" THEN LocalDeleteAll(cfg, f, b, prefix) ELSE GCSDeleteAll(cfg, f, b, prefix, fault)

\* the objects held: files on the local backend, keys in the bucket
ObjectCount(f, b) == Cardinality(DOMAIN f.files) + Cardinality(DOMAIN b)

\* one call: the backend state becomes the outcome's, and the call, its
\* result and the state before it are recorded; afterPut tells whether the
\* call before it was a successful Put of the same name
Call(op, a1, a2, data, fault, o) ==
  /\ ObjectCount(o.fs, o.bucket) <= MaxObjects
  /\ \A q \in DOMAIN o.fs.files \cup o.fs.dirs : Len(q) <= MaxDepth
  /\ fs' = o.fs
  /\ bucket' = o.bucket
  /\ last' = [op |-> op, a1 |-> a1, a2 |-> a2, data |-> data, fault |-> fault,
              res |-> o.res, n |-> o.n, bytes |-> o.bytes, isdir |-> o.isdir,
              listing |-> o.listing, io |-> o.io,
              pre |-> [fs |-> fs, bucket |-> bucket]]
  /\ afterPut' = (last.op = "Put" /\ last.res = "ok" /\ last.a1 = a1)
  /\ UNCHANGED <<backend, configured>>

\* a fault is the failure, caused by the environment, of a backend call that
\* would have succeeded: the outcomes of a call under a fault are those the
\* unfaulted call (whose outcomes are base) cannot have
Faulted(fault, base, faulted) ==
  IF fault = "none" THEN base
  ELSE IF \E u \in base : u.res = "ok" THEN faulted \ base
  ELSE {}

Get ==
  \E name \in Names :
    \E o \in StorageGet(backend, configured, fs, bucket, name) :
      Call("Get", name, <<>>, <<>>, "none", o)

Put ==
  \E name \in Names, data \in Data :
    LET base == StoragePut(backend, configured, fs, bucket, name, data, "none") IN
    \E fault \in PutFaults :
      \E o \in Faulted(fault, base,
                        StoragePut(backend, configured, fs, bucket, name, data, fault)) :
        Call("Put", name, <<>>, data, fault, o)

List ==
  \E prefix \in Names :
    LET base == StorageList(backend, configured, fs, bucket, prefix, "none") IN
    \E fault \in ListFaults :
      \E o \in Faulted(fault, base,
                        StorageList(backend, configured, fs, bucket, prefix, fault)) :
        Call("List", prefix, <<>>, <<>>, fault, o)

Copy ==
  \E src \in Names, dst \in Names :
    LET base == StorageCopy(backend, configured, fs, bucket, src, dst, "none") IN
    \E fault \in CopyFaults :
      \E o \in Faulted(fault, base,
                        StorageCopy(backend, configured, fs, bucket, src, dst, fault)) :
        Call("Copy", src, dst, <<>>, fault, o)

Move ==
  \E src \in Names, dst \in Names :
    LET base == StorageMove(backend, configured, fs, bucket, src, dst, "none") IN
    \E fault \in MoveFaults :
      \E o \in Faulted(fault, base,
                        StorageMove(backend, configured, fs, bucket, src, dst, fault)) :
        Call("Move", src, dst, <<>>, fault, o)

Delete ==
  \E name \in Names :
    LET base == StorageDelete(backend, configured, fs, bucket, name, "none") IN
    \E fault \in DeleteFaults :
      \E o \in Faulted(fault, base,
                        StorageDelete(backend, configured, fs, bucket, name, fault)) :
        Call("Delete", name, <<>>, <<>>, fault, o)

DeleteAll ==
  \E prefix \in Names :
    LET base == StorageDeleteAll(backend, configured, fs, bucket, prefix, "none") IN
    \E fault \in DeleteAllFaults :
      \E o \in Faulted(fault, base,
                        StorageDeleteAll(backend, configured, fs, bucket, prefix, fault)) :
        Call("DeleteAll", prefix, <<>>, <<>>, fault, o)

\* NewLocalStorage / NewGCSStorage: the instance holds only its target
Init ==
  /\ backend \in {"local", "gcs"}
  /\ configured \in BOOLEAN
  /\ fs = [files |-> EmptyMap, dirs |-> {<<>>, Elems(RootDir)}]
  /\ bucket = EmptyMap
  /\ last = [op |-> "none", a1 |-> <<>>, a2 |-> <<>>, data |-> <<>>, fault |-> "none",
             res |-> "ok", n |-> 0, bytes |-> <<>>, isdir |-> FALSE,
             listing |-> NoListing, io |-> FALSE,
             pre |-> [fs |-> fs, bucket |-> bucket]]
  /\ afterPut = FALSE

Next == Get \/ Put \/ List \/ Copy \/ Move \/ Delete \/ DeleteAll

Spec == Init /\ [][Next]_vars

\* every entry's parent is a directory, and nothing is both file and directory
FsWellFormed ==
  /\ DOMAIN fs.files \cap fs.dirs = {}
  /\ \A q \in (DOMAIN fs.files \cup fs.dirs) \ {<<>>} : Dir(q) \in fs.dirs

(* ------------------------- reading the state --------------------------- *)
Cur == [fs |-> fs, bucket |-> bucket]

\* what Get(name) returns in backend state st
GetIn(st, name) ==
  CHOOSE o \in StorageGet(backend, configured, st.fs, st.bucket, name) : TRUE

\* name is an object (not a directory) of st
IsObject(st, name) == LET g == GetIn(st, name) IN g.res = "ok" /\ ~g.isdir

\* Get(name) yields exactly bytes
Holds(st, name, bytes) == IsObject(st, name) /\ GetIn(st, name).bytes = bytes

\* Get(name) fails with a not-found error
Missing(st, name) == GetIn(st, name).res = "NotFound"

\* the stored objects, by physical location: path on the local backend,
\* key in the bucket
Objects(st) == IF backend = "local" THEN st.fs.files ELSE st.bucket

Location(name) == IF backend = "local" THEN FullPath(name) ELSE name

\* the logical name of the object at a location
ObjectName(loc) ==
  IF backend = "local" THEN JoinSlash(SubSeq(loc, Len(Elems(RootDir)) + 1, Len(loc))) ELSE loc

\* every object except those at the locations in S is the same in st1 and st2
SameExcept(st1, st2, S) ==
  /\ DOMAIN Objects(st1) \ S = DOMAIN Objects(st2) \ S
  /\ \A k \in DOMAIN Objects(st1) \ S : Objects(st1)[k] = Objects(st2)[k]

\* the call recorded in last had an empty name / prefix / src / dst argument
EmptyArgument ==
  /\ last.op # "none"
  /\ \/ last.a1 = <<>>
     \/ last.op \in {"Copy", "Move"} /\ last.a2 = <<>>

LastSlash(s) ==
  LET idx == {i \in 1..Len(s) : s[i] = "/"}
  IN IF idx = {} THEN 0 ELSE CHOOSE i \in idx : \A j \in idx : j <= i

(* ----------------------------- properties ------------------------------ *)
\* C1: when Put(n, b) returns without error it returned len(b), and an
\* immediately following Get(n) succeeds and yields exactly b.
C1_PutThenGetRoundTrip ==
  (last.op = "Put" /\ last.res = "ok")
    => (last.n = Len(last.data) /\ Holds(Cur, last.a1, last.data))

\* C2 as stated: after Move(src, dst) returns without error, where src was an
\* object (src = dst included), Get(dst) yields src's former bytes and
\* Get(src) fails with a not-found error.
C2_MoveAnySrcDst ==
  (last.op = "Move" /\ last.res = "ok" /\ IsObject(last.pre, last.a1))
    => (/\ Holds(Cur, last.a2, GetIn(last.pre, last.a1).bytes)
        /\ Missing(Cur, last.a1))

\* C2 amended: the same, for src and dst that name different objects (on the
\* local backend: different paths once cleaned).
C2_MoveDistinct ==
  (/\ last.op = "Move" /\ last.res = "ok" /\ IsObject(last.pre, last.a1)
   /\ Location(last.a1) # Location(last.a2))
    => (/\ Holds(Cur, last.a2, GetIn(last.pre, last.a1).bytes)
        /\ Missing(Cur, last.a1))

\* a Move that replaced an existing, different dst
C2_Witness ==
  /\ last.op = "Move" /\ last.res = "ok" /\ IsObject(last.pre, last.a1)
  /\ Location(last.a1) # Location(last.a2)
  /\ IsObject(last.pre, last.a2)
  /\ GetIn(last.pre, last.a2).bytes # GetIn(last.pre, last.a1).bytes

\* C3: after Copy(src, dst) returns without error, where src was an object
\* (src = dst included), Get(dst) yields the bytes src held, src still holds
\* them, and every other object is unchanged.
C3_CopyPostcondition ==
  (last.op = "Copy" /\ last.res = "ok" /\ IsObject(last.pre, last.a1))
    => (/\ Holds(Cur, last.a2, GetIn(last.pre, last.a1).bytes)
        /\ Holds(Cur, last.a1, GetIn(last.pre, last.a1).bytes)
        /\ SameExcept(last.pre, Cur, {Location(last.a2)}))

\* C4: after a successful Put(n, ...) followed by a successful Delete(n),
\* Get(n) fails with a not-found error and the Delete removed or altered no
\* other object.
C4_DeleteAfterPut ==
  (last.op = "Delete" /\ last.res = "ok" /\ afterPut)
    => (/\ Missing(Cur, last.a1)
        /\ SameExcept(last.pre, Cur, {Location(last.a1)}))

C4_Witness ==
  /\ last.op = "Delete" /\ last.res = "ok" /\ afterPut
  /\ IsObject(last.pre, last.a1)
  /\ DOMAIN Objects(Cur) # {}

\* C5: every entry List(p) returns has a Name that starts with p and denotes
\* an object, also for prefixes that are not in normalized path form.
C5_ListedNamesUnderPrefix ==
  (last.op = "List" /\ last.res = "ok")
    => \A e \in last.listing :
         HasPrefix(e.Name, last.a1) /\ IsObject(Cur, e.Name)

\* C6 as stated: a call with an empty name / prefix / src / dst fails with
\* InvalidArgument, performs no I/O and leaves the store unchanged.
C6_EmptyArgumentInvalid ==
  EmptyArgument
    => (last.res = "InvalidArgument" /\ ~last.io /\ Cur = last.pre)

\* C6 amended: a call with an empty name / prefix / src / dst fails without
\* I/O and leaves the store unchanged; the error is InvalidArgument on a
\* configured storage and the configuration error on an unconfigured one.
C6_EmptyArgumentRejected ==
  EmptyArgument
    => (/\ last.res = (IF configured THEN "InvalidArgument" ELSE "Config")
        /\ ~last.io
        /\ Cur = last.pre)

\* Move with a src and an empty dst on a store that holds objects
C6_Witness ==
  /\ last.op = "Move" /\ last.a1 # <<>> /\ last.a2 = <<>>
  /\ configured
  /\ last.res = "InvalidArgument"
  /\ DOMAIN Objects(Cur) # {}

\* C7: after a successful Put of b under n = p + "/" + f (p non-empty, f
\* without a slash), List(p) returns an entry with Name n and Size len(b).
C7_ListNamesThePutObject ==
  (last.op = "Put" /\ last.res = "ok" /\ LastSlash(last.a1) > 1)
    => \A o \in StorageList(backend, configured, fs, bucket,
                            SubSeq(last.a1, 1, LastSlash(last.a1) - 1), "none") :
         /\ o.res = "ok"
         /\ [Name |-> last.a1, Size |-> Len(last.data)] \in o.listing

\* C8: after DeleteAll(p) returns without error no object whose name starts
\* with p remains, and every object whose name does not start with p is
\* unchanged.
C8_DeleteAllByNamePrefix ==
  (last.op = "DeleteAll" /\ last.res = "ok")
    => (/\ \A k \in DOMAIN Objects(Cur) : ~HasPrefix(ObjectName(k), last.a1)
        /\ SameExcept(last.pre, Cur,
                      {k \in DOMAIN Objects(last.pre) : HasPrefix(ObjectName(k), last.a1)}))

\* no object of st has a name starting with p, and on the local backend
\* none lies at or beneath p's path
NothingMatches(st, p) ==
  \A k \in DOMAIN Objects(st) :
    /\ ~HasPrefix(ObjectName(k), p)
    /\ backend = "local" => (k # FullPath(p) /\ ~Beneath(k, FullPath(p)))

\* C9: for any store content, a DeleteAll(p) directly after a DeleteAll(p)
\* returns without error and leaves the store as the first call left it, and
\* a DeleteAll(p) that matches nothing succeeds as a no-op.
C9_DeleteAllIdempotent ==
  (last.op = "DeleteAll" /\ last.a1 # <<>> /\ configured /\ last.fault = "none")
    => (/\ \A o \in StorageDeleteAll(backend, configured, fs, bucket, last.a1, "none") :
             o.res = "ok" /\ o.fs = fs /\ o.bucket = bucket
        /\ NothingMatches(last.pre, last.a1)
             => (last.res = "ok" /\ SameExcept(last.pre, Cur, {})))

\* C10: whenever Move returns an error, a src that was an object still
\* exists with its pre-move bytes.
C10_FailedMoveKeepsSrc ==
  (last.op = "Move" /\ last.res # "ok" /\ last.a1 # <<>> /\ IsObject(last.pre, last.a1))
    => Holds(Cur, last.a1, GetIn(last.pre, last.a1).bytes)

\* the copy succeeded and the delete of src failed: both are present
C10_Witness ==
  /\ last.op = "Move" /\ last.res # "ok"
  /\ last.fault \in {"rename+remove", "delete"}
  /\ IsObject(last.pre, last.a1)
  /\ Location(last.a1) # Location(last.a2)
  /\ Holds(Cur, last.a2, GetIn(last.pre, last.a1).bytes)
  /\ Holds(Cur, last.a1, GetIn(last.pre, last.a1).bytes)
====
